---- MODULE Spec2Model ----
(***************************************************************************)
(* A model of dwave/embedding/transforms.py: EmbeddedStructure, embed_bqm  *)
(* and unembed_sampleset.                                                  *)
(*                                                                         *)
(* Conventions.  Python positions in a chain are 0-based; here position i  *)
(* of the source is position i+1 of a sequence.  A dict is a function      *)
(* whose DOMAIN is the dict's key set; dicts keyed by source variables are *)
(* iterated in ascending variable order.  Biases are exact rationals       *)
(* <<numerator, denominator>> in lowest terms with denominator > 0.        *)
(***************************************************************************)
EXTENDS Integers, Sequences, FiniteSets, TLC

\* ------------------------------------------------------------------ bounds
NumNodes == 3
NumVars == 2
MaxChainLen == 2
MaxRows == 2
MaxPolicies == 2

Nodes == 1..NumNodes
SrcVars == 1..NumVars

\* ------------------------------------------------------- exact arithmetic
Abs(n) == IF n < 0 THEN -n ELSE n

RECURSIVE GCD(_, _)
GCD(a, b) == IF b = 0 THEN a ELSE GCD(b, a % b)

RNorm(n, d) ==
    LET g == GCD(Abs(n), Abs(d))
        s == IF d < 0 THEN -1 ELSE 1
    IN  <<(s * n) \div g, (s * d) \div g>>

R(n) == <<n, 1>>
RAdd(x, y) == RNorm(x[1] * y[2] + y[1] * x[2], x[2] * y[2])
RMul(x, y) == RNorm(x[1] * y[1], x[2] * y[2])
RNeg(x) == <<-x[1], x[2]>>
\* bias / len(...): true division by a positive count
RDiv(x, k) == RNorm(x[1], x[2] * k)

\* ------------------------------------------------------------ dict helpers
\* defaultdict(list)[k].append(x): the key is created when absent
DictAppend(d, k, x) ==
    IF k \in DOMAIN d THEN [d EXCEPT ![k] = Append(@, x)]
    ELSE d @@ (k :> <<x>>)

\* defaultdict(list)[k] as a read: the value, and the dict after the read
\* (a missing key is inserted with an empty list)
DictGetValue(d, k) == IF k \in DOMAIN d THEN d[k] ELSE <<>>

DictGetDict(d, k) == IF k \in DOMAIN d THEN d ELSE d @@ (k :> <<>>)

EmptyDict == [k \in {} |-> 0]

\* ------------------------------------------------- union-find over 1..n
\* intlabel_disjointsets(n): every position in a set of its own
intlabel_disjointsets(n) == [i \in 1..n |-> {i}]

disjointsets_union(S, i, j) ==
    LET merged == S[i] \cup S[j]
    IN  [k \in DOMAIN S |-> IF k \in merged THEN merged ELSE S[k]]

disjointsets_size(S, i) == Cardinality(S[i])

\* ------------------------------------------- EmbeddedStructure.__init__
\* target_label after the first loop: the last (u, i) written for node q
Owners(embedding, q) ==
    {ui \in (DOMAIN embedding) \X (1..MaxChainLen + 1) :
        /\ ui[2] <= Len(embedding[ui[1]])
        /\ embedding[ui[1]][ui[2]] = q}

LastOwner(S) ==
    CHOOSE ui \in S : \A w \in S :
        \/ w[1] < ui[1]
        \/ (w[1] = ui[1] /\ w[2] <= ui[2])

target_label(embedding) ==
    LET labelled == {q \in Nodes : Owners(embedding, q) # {}}
    IN  [q \in labelled |-> LastOwner(Owners(embedding, q))]

\* the source variable of the first empty chain, in iteration order (0: none)
FirstEmptyChain(embedding) ==
    LET E == {u \in DOMAIN embedding : Len(embedding[u]) = 0}
    IN  IF E = {} THEN 0 ELSE CHOOSE u \in E : \A w \in E : u <= w

FilterEdge(acc, label, p, q) ==
    IF p \in DOMAIN label /\ q \in DOMAIN label
    THEN LET u == label[p][1]
             i == label[p][2]
             v == label[q][1]
             j == label[q][2]
         IN  IF u = v
             THEN [acc EXCEPT
                     !.chain_edges[u] = Append(@, <<i, j>>),
                     !.disjoint_sets[u] = disjointsets_union(@, i, j)]
             ELSE [acc EXCEPT
                     !.interaction_edges =
                         DictAppend(DictAppend(@, <<u, v>>, i), <<v, u>>, j)]
    ELSE acc

RECURSIVE FilterEdges(_, _, _)
FilterEdges(acc, label, target_edges) ==
    IF target_edges = <<>> THEN acc
    ELSE FilterEdges(FilterEdge(acc, label, Head(target_edges)[1],
                                Head(target_edges)[2]),
                     label, Tail(target_edges))

\* a constructor without the final loop: no chain is ever rejected
FirstDisconnectedNoCheck(embedding, disjoint_sets) == 0

\* the first chain, in iteration order, that the final loop rejects (0: none)
FirstDisconnected(embedding, disjoint_sets) ==
    LET D == {u \in DOMAIN embedding :
                Len(embedding[u]) # disjointsets_size(disjoint_sets[u], 1)}
    IN  IF D = {} THEN 0 ELSE CHOOSE u \in D : \A w \in D : u <= w

NoStructure ==
    [embedding |-> EmptyDict, chain_edges |-> EmptyDict,
     interaction_edges |-> EmptyDict]

\* The constructor's outcome: error is "" on success, and then structure is
\* the object built (its embedding, _chain_edges and _interaction_edges).
EmbeddedStructure(target_edges, embedding) ==
    IF FirstEmptyChain(embedding) # 0
    THEN [error |-> "MissingChainError", arg |-> FirstEmptyChain(embedding),
          structure |-> NoStructure]
    ELSE
    LET acc0 == [chain_edges |-> [u \in DOMAIN embedding |-> <<>>],
                 interaction_edges |-> EmptyDict,
                 disjoint_sets |->
                     [u \in DOMAIN embedding |->
                        intlabel_disjointsets(Len(embedding[u]))]]
        acc == FilterEdges(acc0, target_label(embedding), target_edges)
        bad == FirstDisconnected(embedding, acc.disjoint_sets)
    IN  IF bad # 0
        THEN [error |-> "DisconnectedChainError", arg |-> bad,
              structure |-> NoStructure]
        ELSE [error |-> "", arg |-> 0,
              structure |-> [embedding |-> embedding,
                             chain_edges |-> acc.chain_edges,
                             interaction_edges |-> acc.interaction_edges]]

\* --------------------------------------- EmbeddedStructure's iterators
\* chain_edge_iter(u): the chain's edges as target-node pairs
chain_edge_iter(es, u) ==
    LET emb_u == es.embedding[u]
        ce == es.chain_edges[u]
    IN  [k \in 1..Len(ce) |-> <<emb_u[ce[k][1]], emb_u[ce[k][2]]>>]

Min(a, b) == IF a < b THEN a ELSE b

\* interaction_edge_iter(u, v): the zipped pairs, and the structure after
\* the two reads of the defaultdict _interaction_edges
interaction_edge_iter(es, u, v) ==
    LET emb_u == es.embedding[u]
        emb_v == es.embedding[v]
        int_u == DictGetValue(es.interaction_edges, <<u, v>>)
        d1 == DictGetDict(es.interaction_edges, <<u, v>>)
        int_v == DictGetValue(d1, <<v, u>>)
        d2 == DictGetDict(d1, <<v, u>>)
    IN  [edges |-> [k \in 1..Min(Len(int_u), Len(int_v)) |->
                        <<emb_u[int_u[k]], emb_v[int_v[k]]>>],
         structure |-> [es EXCEPT !.interaction_edges = d2]]

\* ------------------------------------------- the quadratic-model container
SPIN == "SPIN"
BINARY == "BINARY"

Key(p, q) == IF p < q THEN <<p, q>> ELSE <<q, p>>

EmptyBqm(vartype) ==
    [vartype |-> vartype, linear |-> EmptyDict, quadratic |-> EmptyDict,
     offset |-> R(0)]

add_variable(bqm, v, bias) ==
    IF v \in DOMAIN bqm.linear
    THEN [bqm EXCEPT !.linear[v] = RAdd(@, bias)]
    ELSE [bqm EXCEPT !.linear = @ @@ (v :> bias)]

add_interaction(bqm, p, q, bias) ==
    LET b1 == add_variable(add_variable(bqm, p, R(0)), q, R(0))
        k == Key(p, q)
    IN  IF k \in DOMAIN b1.quadratic
        THEN [b1 EXCEPT !.quadratic[k] = RAdd(@, bias)]
        ELSE [b1 EXCEPT !.quadratic = @ @@ (k :> bias)]

add_offset(bqm, bias) == [bqm EXCEPT !.offset = RAdd(@, bias)]

\* add_variables_from({u: b for u in chain}): each distinct node once
RECURSIVE add_variables_from(_, _, _)
add_variables_from(bqm, nodes, b) ==
    IF nodes = {} THEN bqm
    ELSE LET q == CHOOSE x \in nodes : \A y \in nodes : x <= y
         IN  add_variables_from(add_variable(bqm, q, b), nodes \ {q}, b)

RECURSIVE add_interactions_from(_, _, _)
add_interactions_from(bqm, interactions, b) ==
    IF interactions = <<>> THEN bqm
    ELSE add_interactions_from(
             add_interaction(bqm, Head(interactions)[1],
                             Head(interactions)[2], b),
             Tail(interactions), b)

\* the keys of a dict of numbers-keyed or pair-keyed entries, in ascending
\* order (the order the model iterates a dict in)
PairLess(a, b) == a[1] < b[1] \/ (a[1] = b[1] /\ a[2] < b[2])

RECURSIVE SortedPairs(_)
SortedPairs(S) ==
    IF S = {} THEN <<>>
    ELSE LET m == CHOOSE x \in S : \A y \in S : x = y \/ PairLess(x, y)
         IN  <<m>> \o SortedPairs(S \ {m})

RECURSIVE SortedInts(_)
SortedInts(S) ==
    IF S = {} THEN <<>>
    ELSE LET m == CHOOSE x \in S : \A y \in S : x <= y
         IN  <<m>> \o SortedInts(S \ {m})

\* energy of one sample (a function from the model's variables to values)
RECURSIVE SumLinear(_, _, _)
SumLinear(bqm, sample, vs) ==
    IF vs = <<>> THEN R(0)
    ELSE RAdd(RMul(bqm.linear[Head(vs)], R(sample[Head(vs)])),
              SumLinear(bqm, sample, Tail(vs)))

RECURSIVE SumQuadratic(_, _, _)
SumQuadratic(bqm, sample, ks) ==
    IF ks = <<>> THEN R(0)
    ELSE RAdd(RMul(bqm.quadratic[Head(ks)],
                   R(sample[Head(ks)[1]] * sample[Head(ks)[2]])),
              SumQuadratic(bqm, sample, Tail(ks)))

energy(bqm, sample) ==
    RAdd(bqm.offset,
         RAdd(SumLinear(bqm, sample, SortedInts(DOMAIN bqm.linear)),
              SumQuadratic(bqm, sample, SortedPairs(DOMAIN bqm.quadratic))))

\* bqm.spin / bqm.binary: the affine substitution spin = 2 * binary - 1
RECURSIVE ToSpinTerms(_, _, _)
ToSpinTerms(acc, bqm, ks) ==
    IF ks = <<>> THEN acc
    ELSE LET k == Head(ks)
             q4 == RDiv(bqm.quadratic[k], 4)
         IN  ToSpinTerms(
                 add_offset(
                     add_variable(
                         add_variable(add_interaction(acc, k[1], k[2], q4),
                                      k[1], q4),
                         k[2], q4),
                     q4),
                 bqm, Tail(ks))

RECURSIVE ToSpinLinear(_, _, _)
ToSpinLinear(acc, bqm, vs) ==
    IF vs = <<>> THEN acc
    ELSE LET a2 == RDiv(bqm.linear[Head(vs)], 2)
         IN  ToSpinLinear(add_offset(add_variable(acc, Head(vs), a2), a2),
                          bqm, Tail(vs))

RECURSIVE ToBinaryTerms(_, _, _)
ToBinaryTerms(acc, bqm, ks) ==
    IF ks = <<>> THEN acc
    ELSE LET k == Head(ks)
             J == bqm.quadratic[k]
             m2J == RNeg(RMul(R(2), J))
         IN  ToBinaryTerms(
                 add_offset(
                     add_variable(
                         add_variable(
                             add_interaction(acc, k[1], k[2], RMul(R(4), J)),
                             k[1], m2J),
                         k[2], m2J),
                     J),
                 bqm, Tail(ks))

RECURSIVE ToBinaryLinear(_, _, _)
ToBinaryLinear(acc, bqm, vs) ==
    IF vs = <<>> THEN acc
    ELSE LET h == bqm.linear[Head(vs)]
         IN  ToBinaryLinear(
                 add_offset(add_variable(acc, Head(vs), RMul(R(2), h)),
                            RNeg(h)),
                 bqm, Tail(vs))

spin(bqm) ==
    IF bqm.vartype = SPIN THEN bqm
    ELSE ToSpinTerms(
             ToSpinLinear(add_offset(EmptyBqm(SPIN), bqm.offset), bqm,
                          SortedInts(DOMAIN bqm.linear)),
             bqm, SortedPairs(DOMAIN bqm.quadratic))

binary(bqm) ==
    IF bqm.vartype = BINARY THEN bqm
    ELSE ToBinaryTerms(
             ToBinaryLinear(add_offset(EmptyBqm(BINARY), bqm.offset), bqm,
                            SortedInts(DOMAIN bqm.linear)),
             bqm, SortedPairs(DOMAIN bqm.quadratic))

\* ----------------------------------------------------------- embed_bqm
\* The outcome of a call: error is "" when a target model is returned; target
\* is then that model.  structure is the EmbeddedStructure the call used, as
\* the call leaves it.  before_penalties and after_penalties are target_bqm
\* as the chain-penalty loop finds it and as it leaves it.
Outcome(error, arg, target, es) ==
    [error |-> error, arg |-> arg, target |-> target, structure |-> es,
     before_penalties |-> target, after_penalties |-> target]

\* a variant without "b = bias / len(chain)": every chain node gets bias
RECURSIVE LinearPassUndivided(_, _, _, _)
LinearPassUndivided(out, source_bqm, embedding, vs) ==
    IF vs = <<>> \/ out.error # "" THEN out
    ELSE LET v == Head(vs)
         IN  IF v \notin DOMAIN embedding
             THEN [out EXCEPT !.error = "MissingChainError", !.arg = <<v>>]
             ELSE LET chain == embedding[v]
                      nodes == {chain[i] : i \in 1..Len(chain)}
                  IN  LinearPassUndivided(
                          [out EXCEPT
                             !.target = add_variables_from(
                                            @, nodes, source_bqm.linear[v])],
                          source_bqm, embedding, Tail(vs))

\* "for v, bias in source_bqm.linear.items()"
RECURSIVE LinearPass(_, _, _, _)
LinearPass(out, source_bqm, embedding, vs) ==
    IF vs = <<>> \/ out.error # "" THEN out
    ELSE LET v == Head(vs)
         IN  IF v \notin DOMAIN embedding
             THEN [out EXCEPT !.error = "MissingChainError", !.arg = <<v>>]
             ELSE LET chain == embedding[v]
                      b == RDiv(source_bqm.linear[v], Len(chain))
                      nodes == {chain[i] : i \in 1..Len(chain)}
                  IN  LinearPass(
                          [out EXCEPT
                             !.target = add_variables_from(@, nodes, b)],
                          source_bqm, embedding, Tail(vs))

\* a variant without "b = bias / len(interactions)": every edge gets bias
QuadraticTermUndivided(out, u, v, bias) ==
    LET it == interaction_edge_iter(out.structure, u, v)
    IN  IF it.edges = <<>>
        THEN [out EXCEPT !.error = "MissingEdgeError", !.arg = <<u, v>>,
                         !.structure = it.structure]
        ELSE [out EXCEPT
                !.target = add_interactions_from(@, it.edges, bias),
                !.structure = it.structure]

\* a variant without "if not interactions: raise MissingEdgeError(u, v)"
QuadraticTermUnchecked(out, u, v, bias) ==
    LET it == interaction_edge_iter(out.structure, u, v)
    IN  IF it.edges = <<>>
        THEN [out EXCEPT !.structure = it.structure]
        ELSE [out EXCEPT
                !.target = add_interactions_from(
                               @, it.edges, RDiv(bias, Len(it.edges))),
                !.structure = it.structure]

\* one source term (u, v) of "for (u, v), bias in source_bqm.quadratic.items()"
QuadraticTerm(out, u, v, bias) ==
    LET it == interaction_edge_iter(out.structure, u, v)
    IN  IF it.edges = <<>>
        THEN [out EXCEPT !.error = "MissingEdgeError", !.arg = <<u, v>>,
                         !.structure = it.structure]
        ELSE [out EXCEPT
                !.target = add_interactions_from(
                               @, it.edges, RDiv(bias, Len(it.edges))),
                !.structure = it.structure]

RECURSIVE QuadraticPass(_, _, _)
QuadraticPass(out, source_bqm, ks) ==
    IF ks = <<>> \/ out.error # "" THEN out
    ELSE QuadraticPass(
             QuadraticTerm(out, Head(ks)[1], Head(ks)[2],
                           source_bqm.quadratic[Head(ks)]),
             source_bqm, Tail(ks))

\* the terms added for the intra-chain edges of one chain of length > 1
RECURSIVE SpinPenalties(_, _, _)
SpinPenalties(bqm, edges, chain_strength) ==
    IF edges = <<>> THEN bqm
    ELSE SpinPenalties(
             add_offset(
                 add_interaction(bqm, Head(edges)[1], Head(edges)[2],
                                 RNeg(chain_strength)),
                 chain_strength),
             Tail(edges), chain_strength)

\* a variant with -2*chain_strength on the edge instead of -4*chain_strength
RECURSIVE BinaryPenaltiesHalved(_, _, _)
BinaryPenaltiesHalved(bqm, edges, chain_strength) ==
    IF edges = <<>> THEN bqm
    ELSE LET p == Head(edges)[1]
             q == Head(edges)[2]
         IN  BinaryPenaltiesHalved(
                 add_variable(
                     add_variable(
                         add_interaction(bqm, p, q,
                             RNeg(RMul(R(2), chain_strength))),
                         p, RMul(R(2), chain_strength)),
                     q, RMul(R(2), chain_strength)),
                 Tail(edges), chain_strength)

RECURSIVE BinaryPenalties(_, _, _)
BinaryPenalties(bqm, edges, chain_strength) ==
    IF edges = <<>> THEN bqm
    ELSE LET p == Head(edges)[1]
             q == Head(edges)[2]
         IN  BinaryPenalties(
                 add_variable(
                     add_variable(
                         add_interaction(bqm, p, q,
                             RNeg(RMul(R(4), chain_strength))),
                         p, RMul(R(2), chain_strength)),
                     q, RMul(R(2), chain_strength)),
                 Tail(edges), chain_strength)

\* "for v, chain in embedding.items()": the chain penalties
RECURSIVE ChainPenalties(_, _, _, _, _)
ChainPenalties(bqm, embedding, es, chain_strength, vs) ==
    IF vs = <<>> THEN bqm
    ELSE LET v == Head(vs)
             chain == embedding[v]
             next ==
                 IF Len(chain) = 1 THEN add_variable(bqm, chain[1], R(0))
                 ELSE IF bqm.vartype = SPIN
                 THEN SpinPenalties(bqm, chain_edge_iter(es, v),
                                    chain_strength)
                 ELSE BinaryPenalties(bqm, chain_edge_iter(es, v),
                                      chain_strength)
         IN  ChainPenalties(next, embedding, es, chain_strength, Tail(vs))

\* embed_bqm from "create a new empty binary quadratic model" to the return
EmbedPasses(source_bqm, embedding, es, chain_strength) ==
    LET out0 == Outcome("", <<>>,
                        add_offset(EmptyBqm(source_bqm.vartype),
                                   source_bqm.offset),
                        es)
        out1 == LinearPass(out0, source_bqm, embedding,
                           SortedInts(DOMAIN source_bqm.linear))
        out2 == QuadraticPass(out1, source_bqm,
                              SortedPairs(DOMAIN source_bqm.quadratic))
        pen == ChainPenalties(out2.target, embedding, out2.structure,
                              chain_strength, SortedInts(DOMAIN embedding))
    IN  IF out2.error # ""
        THEN Outcome(out2.error, out2.arg, EmptyBqm(source_bqm.vartype),
                     out2.structure)
        ELSE [out2 EXCEPT !.target = pen,
                          !.before_penalties = out2.target,
                          !.after_penalties = pen]

NONE == "NONE"

\* embed_bqm once embedded_structure is known: the smear_vartype recursion
\* (which passes the structure, so that the inner call's embedding is the
\* structure's) and the passes
EmbedSmeared(source_bqm, embedding, es, chain_strength, smear_vartype) ==
    IF smear_vartype = SPIN /\ source_bqm.vartype = BINARY
    THEN LET r == EmbedPasses(spin(source_bqm), es.embedding, es,
                              chain_strength)
         IN  IF r.error # ""
             THEN Outcome(r.error, r.arg, EmptyBqm(BINARY), r.structure)
             ELSE [r EXCEPT !.target = binary(@)]
    ELSE IF smear_vartype = BINARY /\ source_bqm.vartype = SPIN
    THEN LET r == EmbedPasses(binary(source_bqm), es.embedding, es,
                              chain_strength)
         IN  IF r.error # ""
             THEN Outcome(r.error, r.arg, EmptyBqm(SPIN), r.structure)
             ELSE [r EXCEPT !.target = spin(@)]
    ELSE EmbedPasses(source_bqm, embedding, es, chain_strength)

\* a variant that raises no ValueError
ArgCheckLax(is_structure, has_adjacency) ==
    IF is_structure THEN "structure" ELSE "build"

\* embed_bqm's first lines, the choice among the ways to pass the embedding.
\* is_structure: embedding is an EmbeddedStructure, else a mapping.
\* has_adjacency: target_adjacency is not None.
ArgCheck(is_structure, has_adjacency) ==
    IF is_structure
    THEN IF has_adjacency THEN "ValueError" ELSE "structure"
    ELSE IF ~has_adjacency THEN "ValueError" ELSE "build"

\* --------------------------------------------------- chain-break policies
\* A sample set is [vartype, variables, rows, info]; a row is a record with
\* the fields sample (variable -> value), energy, and the other per-row
\* fields (num_occurrences here).  Row r of the source is row r+1 here.
IsBroken(sample, chain) ==
    \E i, j \in 1..Len(chain) : sample[chain[i]] # sample[chain[j]]

RECURSIVE ChainSum(_, _)
ChainSum(sample, chain) ==
    IF chain = <<>> THEN 0
    ELSE sample[Head(chain)] + ChainSum(sample, Tail(chain))

\* majority_vote: every row kept, each chain resolved to its most frequent
\* value, a tie to the upper one
majority_vote(sampleset, chains) ==
    [unembedded |->
        [r \in 1..Len(sampleset.rows) |->
            [c \in 1..Len(chains) |->
                LET sum == ChainSum(sampleset.rows[r].sample, chains[c])
                IN  IF sampleset.vartype = SPIN
                    THEN (IF sum >= 0 THEN 1 ELSE -1)
                    ELSE (IF 2 * sum >= Len(chains[c]) THEN 1 ELSE 0)]],
     idxs |-> [r \in 1..Len(sampleset.rows) |-> r]]

\* discard: only the rows with no broken chain kept, each chain resolved to
\* the value of its first node
discard(sampleset, chains) ==
    LET idxs == SortedInts({r \in 1..Len(sampleset.rows) :
                    \A c \in 1..Len(chains) :
                        ~IsBroken(sampleset.rows[r].sample, chains[c])})
    IN  [unembedded |->
            [k \in 1..Len(idxs) |->
                [c \in 1..Len(chains) |->
                    sampleset.rows[idxs[k]].sample[chains[c][1]]]],
         idxs |-> idxs]

ApplyPolicy(name, sampleset, chains) ==
    IF name = "discard" THEN discard(sampleset, chains)
    ELSE majority_vote(sampleset, chains)

\* broken_chains(sampleset, chains).mean(axis=1), for one row
BrokenMean(sample, chains) ==
    RDiv(R(Cardinality({c \in 1..Len(chains) : IsBroken(sample, chains[c])})),
         Len(chains))

\* ---------------------------------------------------- unembed_sampleset
\* a variant that takes record[name][:len(idxs)], the fields not realigned
RealignedCarried(rows, idxs) ==
    [k \in 1..Len(idxs) |-> rows[k].num_occurrences]

\* record[name][idxs], for the one other field of the model's rows
Realigned(rows, idxs) ==
    [k \in 1..Len(idxs) |-> rows[idxs[k]].num_occurrences]

\* the chain_break_fraction vector
BreakFractions(sampleset, chains, idxs) ==
    IF Len(sampleset.rows) * Len(chains) # 0
    THEN [k \in 1..Len(idxs) |->
            BrokenMean(sampleset.rows[idxs[k]].sample, chains)]
    ELSE [k \in 1..Len(idxs) |-> R(0)]

\* the single-policy branch; chain_break_method is the policy's __name__
\* ("" for None)
UnembedSingle(target_sampleset, embedding, source_bqm, chain_break_method, chain_break_fraction, return_embedding) ==
    LET cbm == IF chain_break_method = "" THEN "majority_vote"
               ELSE chain_break_method
        variables == SortedInts(DOMAIN source_bqm.linear)
    IN  IF ~(DOMAIN source_bqm.linear \subseteq DOMAIN embedding)
        THEN [error |-> "ValueError", rows |-> <<>>, info |-> EmptyDict,
              vartype |-> source_bqm.vartype]
        ELSE
        LET chains == [k \in 1..Len(variables) |-> embedding[variables[k]]]
            res == ApplyPolicy(cbm, target_sampleset, chains)
            occ == Realigned(target_sampleset.rows, res.idxs)
            cbf == BreakFractions(target_sampleset, chains, res.idxs)
            sample(k) ==
                [v \in DOMAIN source_bqm.linear |->
                    res.unembedded[k][
                        CHOOSE c \in 1..Len(variables) : variables[c] = v]]
            row(k) ==
                LET base == [sample |-> sample(k),
                             energy |-> energy(source_bqm, sample(k)),
                             num_occurrences |-> occ[k]]
                IN  IF chain_break_fraction
                    THEN base @@ ("chain_break_fraction" :> cbf[k])
                    ELSE base
            context == [embedding |-> embedding, chain_break_method |-> cbm]
            info == IF return_embedding
                    THEN ("embedding_context" :> context)
                             @@ target_sampleset.info
                    ELSE target_sampleset.info
        IN  [error |-> "", rows |-> [k \in 1..Len(res.unembedded) |-> row(k)],
             info |-> info, vartype |-> source_bqm.vartype]

\* a variant that tags every row with index 0
RECURSIVE TaggedConstant(_, _)
TaggedConstant(samplesets, i) ==
    IF i > Len(samplesets) THEN <<>>
    ELSE [k \in 1..Len(samplesets[i].rows) |->
            samplesets[i].rows[k] @@ ("chain_break_method" :> 0)]
         \o TaggedConstant(samplesets, i + 1)

\* cbm_idxs: the rows, in order, each with the index of its sample set
RECURSIVE Tagged(_, _)
Tagged(samplesets, i) ==
    IF i > Len(samplesets) THEN <<>>
    ELSE [k \in 1..Len(samplesets[i].rows) |->
            samplesets[i].rows[k] @@ ("chain_break_method" :> i - 1)]
         \o Tagged(samplesets, i + 1)

\* the branch for a sequence of policies.  info is the info of the sample
\* set dimod.sampleset.concatenate returns.
UnembedSequence(target_sampleset, embedding, source_bqm, chain_break_method, chain_break_fraction, return_embedding, info) ==
    LET samplesets ==
            [i \in 1..Len(chain_break_method) |->
                UnembedSingle(target_sampleset, embedding, source_bqm,
                              chain_break_method[i], chain_break_fraction,
                              FALSE)]
    IN  IF \E i \in 1..Len(samplesets) : samplesets[i].error # ""
        THEN [error |-> "ValueError", rows |-> <<>>, info |-> EmptyDict,
              vartype |-> source_bqm.vartype]
        ELSE [error |-> "", rows |-> Tagged(samplesets, 1), info |-> info,
              vartype |-> source_bqm.vartype]

\* ------------------------------------------------------------ the inputs
\* chains: sequences of target nodes, the empty one included
Chains == UNION {[1..n -> Nodes] : n \in 0..MaxChainLen}

\* embedding mappings over any set of source variables
Embeddings == UNION {[D -> Chains] : D \in SUBSET SrcVars}

\* target graphs: a node set and undirected edges <<p, q>>, p < q, within it
AllEdges(N) == {e \in N \X N : e[1] < e[2]}

Graphs ==
    UNION {{[nodes |-> N, edges |-> E] : E \in SUBSET AllEdges(N)} :
             N \in SUBSET Nodes}

\* adjacency_to_edge_iter(target_adjacency): every edge of the graph once, in
\* some direction and some order
RECURSIVE EdgeLists(_)
EdgeLists(E) ==
    IF E = {} THEN {<<>>}
    ELSE UNION {{<<d>> \o s : s \in EdgeLists(E \ {e}),
                              d \in {e, <<e[2], e[1]>>}} : e \in E}

adjacency_to_edge_iter(adjacency) == EdgeLists(adjacency.edges)

\* source models: a vartype, a set of variables, a set of interactions, and
\* biases that differ from variable to variable and from term to term
SourceBqm(vartype, D, Q) ==
    [vartype |-> vartype,
     linear |-> [v \in D |-> R(v)],
     quadratic |-> [k \in Q |-> R(2 * k[1] + k[2] - 1)],
     offset |-> R(1)]

SourceBqms ==
    UNION {{SourceBqm(vt, D, Q) :
              vt \in {SPIN, BINARY}, Q \in SUBSET AllEdges(D)} :
             D \in (SUBSET SrcVars) \ {{}}}

ChainStrengths == {R(1), R(2)}
SmearVartypes == {NONE, SPIN, BINARY}

\* ------------------------------------------------------------- the state
\* no target node named twice, within a chain or by two chains
EmbeddingDisjoint(emb) ==
    /\ \A u \in DOMAIN emb :
          Cardinality({emb[u][i] : i \in 1..Len(emb[u])}) = Len(emb[u])
    /\ \A u, v \in DOMAIN emb :
          u # v => {emb[u][i] : i \in 1..Len(emb[u])}
                     \cap {emb[v][i] : i \in 1..Len(emb[v])} = {}

\* the embeddings a target model is made with
UsableEmbeddings ==
    {emb \in Embeddings :
        /\ \A u \in DOMAIN emb : Len(emb[u]) > 0
        /\ EmbeddingDisjoint(emb)}

ChainedNodes(emb) ==
    UNION {{emb[u][i] : i \in 1..Len(emb[u])} : u \in DOMAIN emb}

\* sample sets over the variables N: up to MaxRows rows; the stored energies
\* and occurrence counts differ from row to row
TargetInfo == "timing" :> 1

Samplesets(N) ==
    UNION {{[vartype |-> vt, variables |-> N,
             rows |-> [r \in 1..n |->
                         [sample |-> f[r], energy |-> R(10 * r),
                          num_occurrences |-> r]],
             info |-> TargetInfo] :
              f \in [1..n -> [N -> (IF vt = SPIN THEN {-1, 1} ELSE {0, 1})]]} :
             n \in 0..MaxRows, vt \in {SPIN, BINARY}}

NoSampleset ==
    [vartype |-> SPIN, variables |-> {}, rows |-> <<>>, info |-> EmptyDict]

Policies == {"majority_vote", "discard"}
PolicySequences == UNION {[1..n -> Policies] : n \in 1..MaxPolicies}

VARIABLES
    embedding,         \* the caller's embedding mapping
    target_adjacency,  \* the caller's target graph
    target_sampleset,  \* the caller's target sample set
    pc,       \* "start"; "built": a shared structure exists, not yet used;
              \* "embedding": inside embed_bqm, embedded_structure just
              \* built; "done": the call followed has ended
    shared,   \* the EmbeddedStructure callers share (NoStructure before)
    call,     \* the last call: its name and the arguments read so far
    ret       \* what the last call returned or raised

inputs == <<embedding, target_adjacency, target_sampleset>>
vars == <<embedding, target_adjacency, target_sampleset, pc, shared, call, ret>>

NoCall == [op |-> "none"]
NoRet == [error |-> ""]

Init ==
    /\ embedding \in Embeddings
    /\ target_adjacency \in Graphs
    /\ target_sampleset = NoSampleset
    /\ pc = "start"
    /\ shared = NoStructure
    /\ call = NoCall
    /\ ret = NoRet

\* EmbeddedStructure(target_edges, embedding) by a caller who keeps the object
NewEmbeddedStructure ==
    /\ pc = "start"
    /\ \E target_edges \in adjacency_to_edge_iter(target_adjacency) :
       \E c \in {EmbeddedStructure(target_edges, embedding)} :
              /\ call' = [op |-> "EmbeddedStructure",
                          target_edges |-> target_edges]
              /\ ret' = [error |-> c.error, arg |-> c.arg]
              /\ shared' = c.structure
              /\ pc' = IF c.error = "" THEN "built" ELSE "done"
              /\ UNCHANGED inputs

\* structure.chain_edge_iter(u)
ChainEdgeIter ==
    /\ pc = "built"
    /\ \E u \in DOMAIN shared.embedding :
          /\ call' = [op |-> "chain_edge_iter", u |-> u, before |-> shared]
          /\ ret' = [error |-> "", edges |-> chain_edge_iter(shared, u)]
          /\ pc' = "done"
          /\ UNCHANGED <<inputs, shared>>

\* structure.interaction_edge_iter(u, v)
InteractionEdgeIter ==
    /\ pc = "built"
    /\ \E u \in DOMAIN shared.embedding, v \in DOMAIN shared.embedding :
       \E it \in {interaction_edge_iter(shared, u, v)} :
              /\ call' = [op |-> "interaction_edge_iter", u |-> u, v |-> v,
                          before |-> shared]
              /\ ret' = [error |-> "", edges |-> it.edges]
              /\ shared' = it.structure
              /\ pc' = "done"
              /\ UNCHANGED inputs

EmbedCall(stage, is_structure, has_adjacency, target_edges, source_bqm, chain_strength, smear_vartype) ==
    [op |-> "embed_bqm", stage |-> stage, is_structure |-> is_structure,
     has_adjacency |-> has_adjacency, target_edges |-> target_edges,
     source_bqm |-> source_bqm, chain_strength |-> chain_strength,
     smear_vartype |-> smear_vartype, before |-> shared]

\* embed_bqm(source_bqm, structure[, target_adjacency], ...): the whole call.
\* The calls that pass target_adjacency too are made with the default
\* chain_strength and smear_vartype.
EmbedBqmStructure ==
    /\ pc = "built"
    /\ \E source_bqm \in SourceBqms, chain_strength \in ChainStrengths,
          smear_vartype \in SmearVartypes, has_adjacency \in BOOLEAN :
          /\ has_adjacency => (chain_strength = R(1) /\ smear_vartype = NONE)
          /\ IF ArgCheck(TRUE, has_adjacency) = "ValueError"
             THEN /\ call' = EmbedCall("args", TRUE, has_adjacency, <<>>,
                                       source_bqm, chain_strength,
                                       smear_vartype)
                  /\ ret' = [error |-> "ValueError", arg |-> <<>>]
                  /\ shared' = shared
             ELSE \E r \in {EmbedSmeared(source_bqm, shared.embedding, shared,
                                          chain_strength, smear_vartype)} :
                      /\ call' = EmbedCall("passes", TRUE, has_adjacency,
                                           <<>>, source_bqm, chain_strength,
                                           smear_vartype)
                      /\ ret' = [r EXCEPT !.structure = NoStructure]
                      /\ shared' = r.structure
          /\ pc' = "done"
          /\ UNCHANGED inputs

\* embed_bqm(source_bqm, mapping[, target_adjacency], ...) up to the line
\* that builds embedded_structure.  source_bqm, chain_strength and
\* smear_vartype are not read before that line; the model draws them where
\* the call first reads them, in EmbedBqmPasses.
EmbedBqmMapping ==
    /\ pc = "start"
    /\ \E has_adjacency \in BOOLEAN :
       \E target_edges \in (IF has_adjacency
                            THEN adjacency_to_edge_iter(target_adjacency)
                            ELSE {<<>>}) :
          IF ArgCheck(FALSE, has_adjacency) = "ValueError"
          THEN /\ call' = [op |-> "embed_bqm", stage |-> "args",
                           is_structure |-> FALSE,
                           has_adjacency |-> has_adjacency,
                           target_edges |-> target_edges]
               /\ ret' = [error |-> "ValueError", arg |-> <<>>]
               /\ pc' = "done"
               /\ UNCHANGED <<inputs, shared>>
          ELSE \E c \in {EmbeddedStructure(target_edges, embedding)} :
                   /\ call' = [op |-> "embed_bqm", stage |-> "build",
                               is_structure |-> FALSE,
                               has_adjacency |-> has_adjacency,
                               target_edges |-> target_edges,
                               embedded_structure |-> c.structure]
                   /\ ret' = [error |-> c.error, arg |-> <<c.arg>>]
                   /\ pc' = IF c.error = "" THEN "embedding" ELSE "done"
                   /\ UNCHANGED <<inputs, shared>>

\* the rest of that call: the smear_vartype recursion and the three passes
EmbedBqmPasses ==
    /\ pc = "embedding"
    /\ \E source_bqm \in SourceBqms, chain_strength \in ChainStrengths,
          smear_vartype \in SmearVartypes :
       \E r \in {EmbedSmeared(source_bqm, embedding,
                               call.embedded_structure, chain_strength,
                               smear_vartype)} :
              /\ call' = [EmbedCall("passes", FALSE, TRUE,
                                    call.target_edges, source_bqm,
                                    chain_strength, smear_vartype)
                            EXCEPT !.before = call.embedded_structure]
              /\ ret' = [r EXCEPT !.structure = NoStructure]
              /\ pc' = "done"
              /\ UNCHANGED <<inputs, shared>>

Next ==
    \/ NewEmbeddedStructure
    \/ ChainEdgeIter
    \/ InteractionEdgeIter
    \/ EmbedBqmStructure
    \/ EmbedBqmMapping
    \/ EmbedBqmPasses

Spec == Init /\ [][Next]_vars

\* --------------------------------------------- the unembedding side
NoGraph == [nodes |-> {}, edges |-> {}]

InitUnembed ==
    /\ embedding \in UsableEmbeddings
    /\ target_sampleset \in Samplesets(ChainedNodes(embedding))
    /\ target_adjacency = NoGraph
    /\ pc = "start"
    /\ shared = NoStructure
    /\ call = NoCall
    /\ ret = NoRet

UnembedCall(branch, source_bqm, chain_break_method, chain_break_fraction, return_embedding) ==
    [op |-> "unembed_sampleset", branch |-> branch, source_bqm |-> source_bqm,
     chain_break_method |-> chain_break_method,
     chain_break_fraction |-> chain_break_fraction,
     return_embedding |-> return_embedding]

MatchingBqms == {b \in SourceBqms : b.vartype = target_sampleset.vartype}

\* unembed_sampleset with chain_break_method None ("", which stands for
\* majority_vote) or one policy
UnembedOnePolicy ==
    /\ pc = "start"
    /\ \E source_bqm \in MatchingBqms, chain_break_method \in {"", "discard"},
          chain_break_fraction \in BOOLEAN, return_embedding \in BOOLEAN :
          /\ call' = UnembedCall("single", source_bqm, chain_break_method,
                                 chain_break_fraction, return_embedding)
          /\ ret' = UnembedSingle(target_sampleset, embedding, source_bqm,
                                  chain_break_method, chain_break_fraction,
                                  return_embedding)
          /\ pc' = "done"
          /\ UNCHANGED <<inputs, shared>>

\* unembed_sampleset with a sequence of policies
UnembedPolicySequence ==
    /\ pc = "start"
    /\ \E source_bqm \in MatchingBqms,
          chain_break_method \in PolicySequences,
          chain_break_fraction \in BOOLEAN, return_embedding \in BOOLEAN,
          info \in {EmptyDict, target_sampleset.info} :
          /\ call' = UnembedCall("sequence", source_bqm, chain_break_method,
                                 chain_break_fraction, return_embedding)
          /\ ret' = UnembedSequence(target_sampleset, embedding, source_bqm,
                                    chain_break_method, chain_break_fraction,
                                    return_embedding, info)
          /\ pc' = "done"
          /\ UNCHANGED <<inputs, shared>>

NextUnembed ==
    \/ UnembedOnePolicy
    \/ UnembedPolicySequence

SpecUnembed == InitUnembed /\ [][NextUnembed]_vars

\* ------------------------------------------------ the claims' vocabulary
\* What a property says about the target graph and the chains is read off
\* the caller's inputs, embedding and target_adjacency, never off the
\* structure the code derives from them.
ChainNodes(chain) == {chain[i] : i \in 1..Len(chain)}

EdgesBetween(A, B) ==
    {e \in target_adjacency.edges :
        \/ (e[1] \in A /\ e[2] \in B)
        \/ (e[1] \in B /\ e[2] \in A)}

EdgesWithin(A) ==
    {e \in target_adjacency.edges : e[1] \in A /\ e[2] \in A}

\* the positions of chain that target edges join to the positions in S
RECURSIVE PositionsJoined(_, _)
PositionsJoined(chain, S) ==
    LET T == S \cup {j \in 1..Len(chain) :
                       \E i \in S : /\ chain[i] # chain[j]
                                    /\ Key(chain[i], chain[j])
                                           \in target_adjacency.edges}
    IN  IF T = S THEN S ELSE PositionsJoined(chain, T)

ChainConnected(chain) ==
    Len(chain) > 0 => PositionsJoined(chain, {1}) = 1..Len(chain)

ChainsNonEmpty == \A u \in DOMAIN embedding : Len(embedding[u]) > 0

\* no target node is named twice, within a chain or by two chains
ChainsDisjoint ==
    /\ \A u \in DOMAIN embedding :
          Cardinality(ChainNodes(embedding[u])) = Len(embedding[u])
    /\ \A u, v \in DOMAIN embedding :
          u # v => ChainNodes(embedding[u]) \cap ChainNodes(embedding[v]) = {}

SomeChainDisconnected ==
    \E u \in DOMAIN embedding : ~ChainConnected(embedding[u])

\* ------------------------------------------------------------------- C2
ConstructorCalled == call.op = "EmbeddedStructure"

ConstructorVerdict ==
    /\ ret.error \in {"", "DisconnectedChainError"}
    /\ ret.error = "DisconnectedChainError" <=> SomeChainDisconnected

\* C2 as stated: for any target edge list and any embedding whose chains are
\* all non-empty, the constructor raises DisconnectedChainError if and only
\* if some chain's positions are not joined into one component by the target
\* edges with both endpoints in the chain, and succeeds otherwise.
C2_AsStated == (ConstructorCalled /\ ChainsNonEmpty) => ConstructorVerdict

\* C2, amended: the same, for embeddings that name no target node twice
\* (no node repeated in a chain, no node shared by two chains).
C2_DisconnectedIff ==
    (ConstructorCalled /\ ChainsNonEmpty /\ ChainsDisjoint)
        => ConstructorVerdict

C2_Witness ==
    /\ ConstructorCalled /\ ChainsNonEmpty /\ ChainsDisjoint
    /\ ret.error = "DisconnectedChainError"
    /\ target_adjacency.edges # {}

\* ------------------------------------------------------------------- C1
MappingCallEnded ==
    /\ pc = "done"
    /\ call.op = "embed_bqm"
    /\ ~call.is_structure
    /\ call.has_adjacency

SomeTermUnrealizable(source_bqm) ==
    \E k \in DOMAIN source_bqm.quadratic :
        EdgesBetween(ChainNodes(embedding[k[1]]),
                     ChainNodes(embedding[k[2]])) = {}

MissingEdgeVerdict ==
    /\ call.stage = "passes"
    /\ (DOMAIN call.source_bqm.linear \subseteq DOMAIN embedding)
         => /\ ret.error \in {"", "MissingEdgeError"}
            /\ ret.error = "MissingEdgeError"
                 <=> SomeTermUnrealizable(call.source_bqm)

\* C1 as stated: embed_bqm with a mapping and a target adjacency, every chain
\* non-empty and connected, every model variable with a chain: the call
\* raises MissingEdgeError if and only if some quadratic term has no target
\* edge between its two chains, and returns a target model otherwise.
C1_AsStated ==
    (MappingCallEnded /\ ChainsNonEmpty /\ ~SomeChainDisconnected)
        => MissingEdgeVerdict

\* C1, amended: the same, for embeddings that name no target node twice.
C1_MissingEdgeIff ==
    (MappingCallEnded /\ ChainsNonEmpty /\ ~SomeChainDisconnected
        /\ ChainsDisjoint)
        => MissingEdgeVerdict

C1_Witness ==
    /\ MappingCallEnded /\ ChainsNonEmpty /\ ~SomeChainDisconnected
    /\ ChainsDisjoint
    /\ call.stage = "passes"
    /\ DOMAIN call.source_bqm.linear \subseteq DOMAIN embedding
    /\ ret.error = "MissingEdgeError"
    /\ target_adjacency.edges # {}

\* ------------------------------------------------------------------- C3
EmbedReturned ==
    /\ pc = "done"
    /\ call.op = "embed_bqm"
    /\ call.stage = "passes"
    /\ ret.error = ""

\* the target edges that realize the source term k
TermEdges(k) ==
    EdgesBetween(ChainNodes(embedding[k[1]]), ChainNodes(embedding[k[2]]))

\* the target edges inside a chain of more than one node
PenaltyEdges ==
    UNION {EdgesWithin(ChainNodes(embedding[u])) :
             u \in {w \in DOMAIN embedding : Len(embedding[w]) > 1}}

PenaltyCoefficient(vartype, chain_strength) ==
    IF vartype = SPIN THEN RNeg(chain_strength)
    ELSE RNeg(RMul(R(4), chain_strength))

\* C3: after a successful embed_bqm with smear_vartype=None, each of the k
\* target edges between the chains of a source term (u, v) with bias b
\* carries exactly b/k, and no other pair of target nodes receives any share
\* of a source term (a pair that carries a coefficient at all is an edge
\* inside a chain, and carries that chain's penalty only), whatever the
\* direction and order the target edges were listed in.
C3_EqualShares ==
    (EmbedReturned /\ call.smear_vartype = NONE) =>
        LET Q == call.source_bqm.quadratic
            T == ret.target.quadratic
        IN  /\ \A k \in DOMAIN Q : \A e \in TermEdges(k) :
                  /\ e \in DOMAIN T
                  /\ T[e] = RDiv(Q[k], Cardinality(TermEdges(k)))
            /\ \A e \in DOMAIN T :
                  \/ \E k \in DOMAIN Q : e \in TermEdges(k)
                  \/ /\ e \in PenaltyEdges
                     /\ T[e] = PenaltyCoefficient(ret.target.vartype,
                                                  call.chain_strength)

\* a term shared by two target edges, listed in opposite directions
C3_Witness ==
    /\ EmbedReturned /\ call.smear_vartype = NONE
    /\ \E k \in DOMAIN call.source_bqm.quadratic :
          Cardinality(TermEdges(k)) = 2
    /\ \E i, j \in 1..Len(call.target_edges) :
          /\ call.target_edges[i][1] < call.target_edges[i][2]
          /\ call.target_edges[j][1] > call.target_edges[j][2]
          /\ \E k \in DOMAIN call.source_bqm.quadratic :
                {Key(call.target_edges[i][1], call.target_edges[i][2]),
                 Key(call.target_edges[j][1], call.target_edges[j][2])}
                    = TermEdges(k)

\* ------------------------------------------------------------------- C4
Values(vartype) == IF vartype = SPIN THEN {-1, 1} ELSE {0, 1}

Assignments(vartype) == [Nodes -> Values(vartype)]

BrokenPenaltyEdges(x) == {e \in PenaltyEdges : x[e[1]] # x[e[2]]}

\* C4: in either domain and for every chain_strength, the terms the penalty
\* loop adds to the target model are worth, on any assignment, exactly
\* 2*chain_strength per intra-chain edge whose endpoints disagree: nothing
\* when every chain agrees.
C4_PenaltyNeutral ==
    EmbedReturned =>
        \A x \in Assignments(ret.after_penalties.vartype) :
            energy(ret.after_penalties, x)
              = RAdd(energy(ret.before_penalties, x),
                     RMul(R(2 * Cardinality(BrokenPenaltyEdges(x))),
                          call.chain_strength))

C4_Witness ==
    /\ EmbedReturned
    /\ ret.after_penalties.vartype = BINARY
    /\ call.chain_strength = R(2)
    /\ PenaltyEdges # {}

\* ------------------------------------------------------------------- C5
SomeInvalidNode ==
    \E u \in DOMAIN embedding :
        ~(ChainNodes(embedding[u]) \subseteq target_adjacency.nodes)

\* C5 as stated: embed_bqm with a mapping and a target adjacency, some chain
\* naming a node absent from the adjacency, fails with an invalid-node error
\* and returns no target model.
C5_InvalidNodeRaised ==
    (MappingCallEnded /\ SomeInvalidNode) => ret.error = "InvalidNodeError"

\* ------------------------------------------------------------------- C6
StructureRead ==
    \/ call.op \in {"chain_edge_iter", "interaction_edge_iter"}
    \/ (call.op = "embed_bqm" /\ call.is_structure)

\* C6 as stated: embed_bqm with a precomputed structure, chain_edge_iter and
\* interaction_edge_iter leave the structure as it was before the call, the
\* key set of its interaction index included, whether they succeed or fail.
C6_StructureUnchanged == StructureRead => shared = call.before

\* ------------------------------------------------------------------- C7
Unembedded(branch) ==
    /\ call.op = "unembed_sampleset"
    /\ call.branch = branch
    /\ ret.error = ""

\* the chains of the source model's variables, in the variables' order
CallVariables == SortedInts(DOMAIN call.source_bqm.linear)
CallChains == [c \in 1..Len(CallVariables) |-> embedding[CallVariables[c]]]

\* what the policy of a single-policy call returns
PolicyResult ==
    ApplyPolicy(call.chain_break_method, target_sampleset, CallChains)

\* the fraction of the chains that target row r breaks
BrokenFraction(r) ==
    IF Len(CallChains) = 0 THEN R(0)
    ELSE RNorm(Cardinality({c \in 1..Len(CallChains) :
                   \E i, j \in 1..Len(CallChains[c]) :
                       target_sampleset.rows[r].sample[CallChains[c][i]]
                           # target_sampleset.rows[r].sample[CallChains[c][j]]}),
               Len(CallChains))

\* C7: a single-policy unembed_sampleset returns one row per retained index;
\* row k holds the policy's resolved row k, its energy is the source model's
\* energy of that row, and its other fields (chain_break_fraction included,
\* when requested) are those of target row idxs[k].
C7_RowsRealigned ==
    Unembedded("single") =>
        /\ Len(ret.rows) = Len(PolicyResult.idxs)
        /\ \A k \in 1..Len(ret.rows) :
              /\ \A c \in 1..Len(CallVariables) :
                    ret.rows[k].sample[CallVariables[c]]
                        = PolicyResult.unembedded[k][c]
              /\ ret.rows[k].energy
                    = energy(call.source_bqm, ret.rows[k].sample)
              /\ ret.rows[k].num_occurrences
                    = target_sampleset.rows[PolicyResult.idxs[k]].num_occurrences
              /\ IF call.chain_break_fraction
                 THEN ret.rows[k].chain_break_fraction
                          = BrokenFraction(PolicyResult.idxs[k])
                 ELSE "chain_break_fraction" \notin DOMAIN ret.rows[k]

\* the first of two target rows is discarded, so that output row 1 is target
\* row 2, and its energy is not the stored one
C7_Witness ==
    /\ Unembedded("single")
    /\ call.chain_break_method = "discard"
    /\ call.chain_break_fraction
    /\ Len(target_sampleset.rows) = 2
    /\ PolicyResult.idxs = <<2>>
    /\ Len(ret.rows) = 1
    /\ ret.rows[1].num_occurrences = target_sampleset.rows[2].num_occurrences
    /\ ret.rows[1].energy # target_sampleset.rows[2].energy

\* ------------------------------------------------------------------- C8
\* the results of the single-policy calls with the policies of the sequence
SinglePolicyResults ==
    [i \in 1..Len(call.chain_break_method) |->
        UnembedSingle(target_sampleset, embedding, call.source_bqm,
                      call.chain_break_method[i], call.chain_break_fraction,
                      FALSE)]

RECURSIVE RowsBefore(_, _)
RowsBefore(singles, i) ==
    IF i <= 1 THEN 0
    ELSE RowsBefore(singles, i - 1) + Len(singles[i - 1].rows)

\* C8: with a sequence of policies the result has the rows of the
\* single-policy results, one policy after the other in the order of the
\* sequence, and each row's chain_break_method is the (0-based) index of the
\* policy it comes from.
C8_Concatenated ==
    Unembedded("sequence") =>
        \A singles \in {SinglePolicyResults} :
            /\ Len(ret.rows) = RowsBefore(singles, Len(singles) + 1)
            /\ \A i \in 1..Len(singles) :
                  \A k \in 1..Len(singles[i].rows) :
                      LET row == ret.rows[RowsBefore(singles, i) + k]
                          single == singles[i].rows[k]
                      IN  /\ row.chain_break_method = i - 1
                          /\ DOMAIN row
                               = DOMAIN single \cup {"chain_break_method"}
                          /\ \A name \in DOMAIN single :
                                row[name] = single[name]

\* two different policies that keep different numbers of rows
C8_Witness ==
    /\ Unembedded("sequence")
    /\ call.chain_break_method = <<"discard", "majority_vote">>
    /\ Len(target_sampleset.rows) = 2
    /\ Len(ret.rows) = 3
    /\ ret.rows[1].chain_break_method = 0
    /\ ret.rows[3].chain_break_method = 1

\* ------------------------------------------------------------------- C9
\* C9: unembed_sampleset called with return_embedding=True, with one policy
\* or with a sequence of them, returns a sample set whose info holds the
\* embedding and the name of the policy.
C9_EmbeddingReturned ==
    (call.op = "unembed_sampleset" /\ ret.error = "" /\ call.return_embedding)
        => /\ "embedding_context" \in DOMAIN ret.info
           /\ ret.info["embedding_context"].embedding = embedding

\* the other half of C9: with return_embedding=False the info is the target
\* sample set's
C9_InfoCopied ==
    (call.op = "unembed_sampleset" /\ ret.error = ""
        /\ ~call.return_embedding)
        => ret.info = target_sampleset.info

\* ------------------------------------------------------------------ C10
\* C10: embed_bqm rejects a structure given together with a target adjacency
\* and a mapping given without one, in both cases before anything is built;
\* a structure alone and a mapping with an adjacency proceed.
C10_ExactlyOneWay ==
    call.op = "embed_bqm" =>
        IF call.is_structure = call.has_adjacency
        THEN /\ ret.error = "ValueError"
             /\ call.stage = "args"
             /\ "target" \notin DOMAIN ret
        ELSE /\ ret.error # "ValueError"
             /\ call.stage \in {"build", "passes"}

C10_Witness ==
    /\ call.op = "embed_bqm"
    /\ call.is_structure
    /\ call.has_adjacency
    /\ ret.error = "ValueError"

\* ------------------------------------------------------------------ C11
\* every node of every chain holds the same value under x
ChainsAgree(x) ==
    \A u \in DOMAIN embedding :
        \A i, j \in 1..Len(embedding[u]) :
            x[embedding[u][i]] = x[embedding[u][j]]

\* the source assignment that gives each variable its chain's common value
SourceAssignment(x) ==
    [v \in DOMAIN call.source_bqm.linear |-> x[embedding[v][1]]]

\* C11: after a successful embed_bqm, in either domain, with any
\* smear_vartype and any chain_strength, the target model is of the source
\* model's vartype, and on every target assignment in which every chain
\* agrees its energy is the source model's energy of the assignment that
\* gives each source variable its chain's common value.
C11_EnergyPreserved ==
    EmbedReturned =>
        /\ ret.target.vartype = call.source_bqm.vartype
        /\ \A x \in Assignments(ret.target.vartype) :
              ChainsAgree(x) =>
                  energy(ret.target, x)
                      = energy(call.source_bqm, SourceAssignment(x))

\* a binary model with a quadratic term, smeared in spin, a chain of two
\* nodes with its penalty, and a chain_strength other than the default
C11_Witness ==
    /\ EmbedReturned
    /\ call.source_bqm.vartype = BINARY
    /\ call.smear_vartype = SPIN
    /\ call.chain_strength = R(2)
    /\ DOMAIN call.source_bqm.quadratic # {}
    /\ PenaltyEdges # {}
    /\ \E u \in DOMAIN call.source_bqm.linear : Len(embedding[u]) = 2

====
